---------------------------- MODULE Spec2Model ----------------------------
(***************************************************************************)
(* Analysis and prediction engine of the lottery system.                   *)
(*                                                                         *)
(*   src/src/core/data_analyzer.py      DataAnalyzer                       *)
(*   src/src/core/prediction_engine.py  PredictionEngine                   *)
(*   src/src/config/lottery_types.py    LOTTERY_GAMES, LotteryType         *)
(*   src/src/core/record_manager.py     RecordManager                      *)
(*                                                                         *)
(* A draw is a record: [kind |-> "list", items] is a Python list or tuple  *)
(* of integers, [kind |-> "str", tokens] a comma-delimited string by its   *)
(* tokens.  The loaded history (DataAnalyzer.data) is the                  *)
(* sequence of the rows' draws, oldest first; row i (1-based here) has the *)
(* pandas index label i - 1.  A Python dict is a sequence of <<key, value>>*)
(* pairs in insertion order, a list a sequence.  A call that draws on      *)
(* `random` is an operator giving the SET of its possible outcomes; an     *)
(* outcome is [status |-> "ok", value |-> v] or, when the call raises,     *)
(* [status |-> "error", value |-> <<>>].                                   *)
(***************************************************************************)
EXTENDS Integers, Sequences, FiniteSets, TLC

VARIABLES
    lottery_type,       \* PredictionEngine.lottery_type.game_type
    algorithms,         \* PredictionEngine.algorithms
    min_data_points,    \* PredictionEngine.config['min_data_points']
    data,               \* PredictionEngine.analyzer.data
    statistics,         \* PredictionEngine.analyzer.statistics
    request,            \* count and number_range of the prediction asked for
    ret,                \* the last call: its name, arguments and outcome
    records,            \* RecordManager.records
    stored,             \* the records in the file at storage_path
    now                 \* datetime.now(), in seconds

\* the state of the record manager
manager == <<records, stored, now>>

vars == <<lottery_type, algorithms, min_data_points, data, statistics,
          request, ret, manager>>

----------------------------------------------------------------------------
(* Bounds of the model *)

MaxNum == 3         \* numbers of the small histories and ranges are 1..MaxNum
MaxDrawLen == 2     \* numbers per draw of a small history
MaxDraws == 3       \* draws of a history loaded before a prediction
MaxDrawsA == 2      \* draws of a history loaded before an analysis
MaxCount == 3       \* `count` arguments are 0..MaxCount
MaxWindow == 2      \* `window` arguments are 1..MaxWindow
MaxEnum == 4        \* populations up to this size are sampled exhaustively
MaxDrawsG == 2      \* draws of a history loaded for a game's prediction
MaxDrawsC == 2      \* draws of a varied history loaded before an ensemble
MaxTokens == 2      \* tokens of a draw given as a string are 1..MaxTokens
MaxDrawsS == 2      \* draws of a history with draws given as strings
MaxRecords == 2     \* records the manager holds at most
MaxClock == 1       \* seconds that pass while the manager is used
MaxDrawsF == 2      \* draws of a history loaded between other calls
MaxDrawsL == 6      \* draws of the longest history loaded before an ensemble

----------------------------------------------------------------------------
(* Python lists, dicts and sorting *)

Min(a, b) == IF a < b THEN a ELSE b

Max(a, b) == IF a > b THEN a ELSE b

Abs(a) == IF a < 0 THEN -a ELSE a

Range(s) == {s[i] : i \in DOMAIN s}

\* s[:k] for k >= 0
Take(s, k) == SubSeq(s, 1, Min(k, Len(s)))

\* range(lo, hi + 1) as a set
PyRange(lo, hi) == lo..hi

RECURSIVE Flatten(_)
Flatten(lists) ==
    IF lists = <<>> THEN <<>> ELSE Head(lists) \o Flatten(Tail(lists))

RECURSIVE SumSeq(_)
SumSeq(s) == IF s = <<>> THEN 0 ELSE Head(s) + SumSeq(Tail(s))

Occurrences(s, x) == Cardinality({i \in DOMAIN s : s[i] = x})

\* the distinct elements of s in first-seen order (dict insertion order)
RECURSIVE Dedup(_, _)
Dedup(s, seen) ==
    IF s = <<>> THEN <<>>
    ELSE IF Head(s) \in seen THEN Dedup(Tail(s), seen)
    ELSE <<Head(s)>> \o Dedup(Tail(s), seen \cup {Head(s)})

\* dict(Counter(s)): <<element, occurrences>> in first-seen order
Counter(s) ==
    LET keys == Dedup(s, {})
    IN  [i \in DOMAIN keys |-> <<keys[i], Occurrences(s, keys[i])>>]

Keys(items) == [i \in DOMAIN items |-> items[i][1]]

Values(items) == [i \in DOMAIN items |-> items[i][2]]

\* insert x into the ascending sequence s, after its equals
RECURSIVE InsertAsc(_, _)
InsertAsc(x, s) ==
    IF s = <<>> THEN <<x>>
    ELSE IF x < Head(s) THEN <<x>> \o s
    ELSE <<Head(s)>> \o InsertAsc(x, Tail(s))

\* sorted(s) of a list of integers
RECURSIVE Sorted(_)
Sorted(s) ==
    IF s = <<>> THEN <<>>
    ELSE InsertAsc(s[Len(s)], Sorted(SubSeq(s, 1, Len(s) - 1)))

\* the elements of a set of integers in ascending order
RECURSIVE SetToSeq(_)
SetToSeq(S) ==
    IF S = {} THEN <<>>
    ELSE LET m == CHOOSE x \in S : \A y \in S : x <= y
         IN  <<m>> \o SetToSeq(S \ {m})

\* insert the pair p into items, sorted by descending value, after its equals
RECURSIVE InsertDesc(_, _)
InsertDesc(p, items) ==
    IF items = <<>> THEN <<p>>
    ELSE IF p[2] > Head(items)[2] THEN <<p>> \o items
    ELSE <<Head(items)>> \o InsertDesc(p, Tail(items))

\* insert the pair p into items, sorted by ascending value, after its equals
RECURSIVE InsertByValueAsc(_, _)
InsertByValueAsc(p, items) ==
    IF items = <<>> THEN <<p>>
    ELSE IF p[2] < Head(items)[2] THEN <<p>> \o items
    ELSE <<Head(items)>> \o InsertByValueAsc(p, Tail(items))

\* sorted(items, key=lambda x: x[1]): stable
RECURSIVE SortedByValueAsc(_)
SortedByValueAsc(items) ==
    IF items = <<>> THEN <<>>
    ELSE InsertByValueAsc(items[Len(items)],
                          SortedByValueAsc(SubSeq(items, 1, Len(items) - 1)))

\* sorted(items, key=lambda x: x[1], reverse=True): stable, so pairs of equal
\* value keep the order they have in items
RECURSIVE SortedByValueDesc(_)
SortedByValueDesc(items) ==
    IF items = <<>> THEN <<>>
    ELSE InsertDesc(items[Len(items)],
                    SortedByValueDesc(SubSeq(items, 1, Len(items) - 1)))

----------------------------------------------------------------------------
(* Outcomes and the random source *)

Ok(v) == [status |-> "ok", value |-> v]

Err == [status |-> "error", value |-> <<>>]

KSubsets(S, k) == {T \in SUBSET S : Cardinality(T) = k}

Lowest(S, k) == Range(Take(SetToSeq(S), k))

Highest(S, k) ==
    LET s == SetToSeq(S) IN {s[i] : i \in (Len(s) - k + 1)..Len(s)}

\* random.sample(population, k) of a population without repeats: the possible
\* results as sets (every use sorts the final list), or Err for the ValueError
\* "Sample larger than population or is negative".  A population larger than
\* MaxEnum is sampled at its two ends only.
Sample(S, k) ==
    IF k < 0 \/ k > Cardinality(S) THEN {Err}
    ELSE IF Cardinality(S) <= MaxEnum THEN {Ok(T) : T \in KSubsets(S, k)}
    ELSE {Ok(Lowest(S, k)), Ok(Highest(S, k))}

\* list(set(random.choices(population, weights=w, k=2*n)))[:n] with every
\* weight positive: any 1..n distinct members; nothing is drawn for n = 0; an
\* empty population raises IndexError (cum_weights[-1] of no weights).  Of a
\* population larger than MaxEnum the model draws n members at either end,
\* or the lowest member alone.
ChoicesDistinct(S, n) ==
    IF S = {} THEN {Err}
    ELSE IF n = 0 THEN {Ok({})}
    ELSE IF Cardinality(S) <= MaxEnum
         THEN {Ok(T) : T \in {U \in SUBSET S : Cardinality(U) \in 1..n}}
    ELSE {Ok(Lowest(S, Min(n, Cardinality(S)))),
          Ok(Highest(S, Min(n, Cardinality(S)))),
          Ok(Lowest(S, 1))}

----------------------------------------------------------------------------
(* DataAnalyzer *)

ListDraw(nums) == [kind |-> "list", items |-> nums]

IsListOrTuple(d) == d.kind = "list"

\* One token of numbers.split(','), by what str.strip, str.isdigit and int
\* make of it: "digits" is a plain decimal numeral ("7"), "padded" one with
\* blanks around it (" 7 "), "signed" one with a sign ("+7"), "word" a text
\* that is no numeral ("x", ""), "superscript" a digit character that is no
\* decimal numeral ("²").  value is the integer a numeral stands for.
Token(cls, value) == [cls |-> cls, value |-> value]

\* a row whose numbers are a string: its tokens are those of split(',')
StrDraw(tokens) == [kind |-> "str", tokens |-> tokens]

IsStr(d) == d.kind = "str"

\* n.strip().isdigit()
StripIsDigit(t) == t.cls \in {"digits", "padded", "superscript"}

\* int(n.strip()): ValueError for a text that is no decimal numeral
int(t) == IF t.cls \in {"digits", "padded", "signed"} THEN Ok(t.value) ELSE Err

\* [int(n.strip()) for n in numbers.split(',') if n.strip().isdigit()]
ParseNumbers(tokens) ==
    LET kept == SelectSeq(tokens, StripIsDigit)
    IN  IF \E i \in DOMAIN kept : int(kept[i]) = Err THEN Err
        ELSE Ok([i \in DOMAIN kept |-> int(kept[i]).value])

\* the loop over the rows raises: some string row holds a token that passes
\* isdigit and that int rejects
ParseFails(d) ==
    \E i \in DOMAIN d : IsStr(d[i]) /\ ParseNumbers(d[i].tokens) = Err

\* the numbers a row contributes to all_numbers
RowNumbers(d) ==
    IF IsListOrTuple(d) THEN d.items
    ELSE IF IsStr(d) /\ ParseNumbers(d.tokens) # Err
         THEN ParseNumbers(d.tokens).value
    ELSE <<>>

\* a faulty variant: a number is counted once per draw holding it
get_frequency_analysis_once_per_draw(d) ==
    IF d = <<>> THEN <<>>
    ELSE Counter(Flatten([i \in DOMAIN d |-> Dedup(RowNumbers(d[i]), {})]))

get_frequency_analysis(d) ==
    IF d = <<>> THEN <<>>
    ELSE Counter(Flatten([i \in DOMAIN d |-> RowNumbers(d[i])]))

\* the call as a whole: the table, or the ValueError of the parsing
get_frequency_analysis_call(d) ==
    IF ParseFails(d) THEN Err ELSE Ok(get_frequency_analysis(d))

\* 10 * np.percentile(values, 10 * q10): linear interpolation between the
\* ranked values, at the virtual index q * (n - 1)
Percentile10(values, q10) ==
    LET v == Sorted(values)
        pos10 == q10 * (Len(v) - 1)
        lo == pos10 \div 10
        r == pos10 % 10
    IN  IF r = 0 THEN 10 * v[lo + 1]
        ELSE 10 * v[lo + 1] + r * (v[lo + 2] - v[lo + 1])

hot_cutoff10(frequency, hot10) == Percentile10(Values(frequency), hot10)

cold_cutoff10(frequency, cold10) == Percentile10(Values(frequency), cold10)

\* a faulty variant: hot only strictly above the cutoff
hot_numbers_strict(frequency, hot10) ==
    SelectSeq(frequency, LAMBDA p : 10 * p[2] > hot_cutoff10(frequency, hot10))

hot_numbers(frequency, hot10) ==
    SelectSeq(frequency, LAMBDA p : 10 * p[2] >= hot_cutoff10(frequency, hot10))

\* a faulty variant: the comparison with the cold cutoff is turned around
cold_numbers_flipped(frequency, cold10) ==
    SelectSeq(frequency, LAMBDA p : 10 * p[2] >= cold_cutoff10(frequency, cold10))

cold_numbers(frequency, cold10) ==
    SelectSeq(frequency, LAMBDA p : 10 * p[2] <= cold_cutoff10(frequency, cold10))

\* thresholds are given in tenths: hot_threshold = hot10 / 10
get_hot_cold_numbers(d, hot10, cold10) ==
    LET frequency == get_frequency_analysis(d)
    IN  IF frequency = <<>> THEN [hot |-> <<>>, cold |-> <<>>]
        ELSE [hot |-> Sorted(Keys(hot_numbers(frequency, hot10))),
              cold |-> Sorted(Keys(cold_numbers(frequency, cold10)))]

\* a faulty variant: the whole history, not its last window rows
Tail_whole(d, window) == d

\* data.tail(window)
Tail_(d, window) == SubSeq(d, Max(1, Len(d) - window + 1), Len(d))

\* _extract_draws_from_data: every row's numbers in ascending order
extract_draws_from_data(d) == [i \in DOMAIN d |-> Sorted(RowNumbers(d[i]))]

\* _count_consecutive_numbers
count_consecutive_numbers(draws) ==
    SumSeq([k \in DOMAIN draws |->
               Cardinality({i \in 1..(Len(draws[k]) - 1) :
                               draws[k][i + 1] - draws[k][i] = 1})])

\* _calculate_odd_even_ratio, for a non-empty list
calculate_odd_even_ratio(numbers) ==
    [num |-> Cardinality({i \in DOMAIN numbers : numbers[i] % 2 = 1}),
     den |-> Len(numbers)]

\* _calculate_high_low_ratio, for a non-empty list: n > max_num / 2
calculate_high_low_ratio(numbers) ==
    LET max_num == CHOOSE m \in Range(numbers) : \A n \in Range(numbers) : n <= m
    IN  [num |-> Cardinality({i \in DOMAIN numbers : 2 * numbers[i] > max_num}),
         den |-> Len(numbers)]

\* _calculate_sum_range, for a non-empty list of draws
calculate_sum_range(draws) ==
    LET draw_sums == {SumSeq(draws[k]) : k \in DOMAIN draws}
    IN  <<CHOOSE m \in draw_sums : \A x \in draw_sums : m <= x,
          CHOOSE m \in draw_sums : \A x \in draw_sums : x <= m>>

\* the patterns dict before anything is counted; 0.0 is the fraction 0 / 1
DefaultPatterns ==
    << <<"consecutive_numbers", 0>>,
       <<"odd_even_ratio", [num |-> 0, den |-> 1]>>,
       <<"high_low_ratio", [num |-> 0, den |-> 1]>>,
       <<"sum_range", <<0, 0>> >> >>

\* get_pattern_analysis for window >= 0; {} is the empty sequence
get_pattern_analysis(d, window) ==
    IF d = <<>> \/ Len(d) < window THEN Ok(<<>>)
    ELSE IF ParseFails(Tail_(d, window)) THEN Err
    ELSE LET all_draws == extract_draws_from_data(Tail_(d, window))
             all_nums == Flatten(all_draws)
         IN  IF all_draws = <<>> THEN Ok(DefaultPatterns)
             ELSE IF all_nums = <<>>
                  THEN Ok(<< <<"consecutive_numbers",
                                count_consecutive_numbers(all_draws)>> >>
                          \o Tail(DefaultPatterns))
             ELSE Ok(<< <<"consecutive_numbers",
                           count_consecutive_numbers(all_draws)>>,
                        <<"odd_even_ratio", calculate_odd_even_ratio(all_nums)>>,
                        <<"high_low_ratio", calculate_high_low_ratio(all_nums)>>,
                        <<"sum_range", calculate_sum_range(all_draws)>> >>)

DefaultHot == 7

DefaultPatternWindow == 5

DefaultCold == 3

\* the entries of most_common and of least_common
CommonCount == 10

\* the summary get_statistics_summary returns and keeps in self.statistics;
\* the ValueError of the parsing leaves the call before the summary is made
get_statistics_summary(d) ==
    LET frequency == get_frequency_analysis(d)
        hot_cold == get_hot_cold_numbers(d, DefaultHot, DefaultCold)
        patterns == get_pattern_analysis(d, DefaultPatternWindow)
    IN  IF ParseFails(d) \/ patterns.status = "error" THEN Err
        ELSE Ok([total_draws |-> Len(d),
                 frequency_distribution |-> frequency,
                 hot_numbers |-> hot_cold.hot,
                 cold_numbers |-> hot_cold.cold,
                 patterns |-> patterns.value,
                 most_common |->
                     Take(SortedByValueDesc(frequency), CommonCount),
                 least_common |->
                     Take(SortedByValueAsc(frequency), CommonCount)])

----------------------------------------------------------------------------
(* PredictionEngine: the seven prediction operations *)

\* map an outcome's value
Then(o, F(_)) == IF o.status = "ok" THEN Ok(F(o.value)) ELSE Err

\* sorted(random.sample(range(lo, hi + 1), count))
RandomFallback(count, lo, hi) ==
    {Then(a, SetToSeq) : a \in Sample(PyRange(lo, hi), count)}

\* "fill with random ones": extend predicted to count numbers with a sample
\* of the numbers of the range that predicted does not hold yet
FillRandom(predicted, count, lo, hi) ==
    IF Len(predicted) < count
    THEN LET available == PyRange(lo, hi) \ Range(predicted)
         IN  {Then(a, LAMBDA T : predicted \o SetToSeq(T)) :
                 a \in Sample(available, count - Len(predicted))}
    ELSE {Ok(predicted)}

\* sorted(predicted[:count])
SortedPrefix(outs, count) ==
    {Then(o, LAMBDA p : Sorted(Take(p, count))) : o \in outs}

\* a faulty variant: the first count keys in first-seen order, not ranked
TopKeys_first_seen(items, count) == Keys(Take(items, count))

\* the first count keys of a table ranked by descending value
TopKeys(items, count) == Keys(Take(SortedByValueDesc(items), count))

predict_by_frequency(d, count, lo, hi) ==
    LET frequency == get_frequency_analysis(d)
    IN  IF frequency = <<>> THEN RandomFallback(count, lo, hi)
        ELSE SortedPrefix(
                 FillRandom(TopKeys(frequency, count), count, lo, hi), count)

\* a faulty variant: the numbers are drawn from the cold set
predict_by_cold_numbers(d, count, lo, hi) ==
    LET hot == get_hot_cold_numbers(d, DefaultHot, DefaultCold).cold
    IN  IF hot = <<>> THEN RandomFallback(count, lo, hi)
        ELSE IF Len(hot) >= count
             THEN {Then(a, SetToSeq) : a \in Sample(Range(hot), count)}
        ELSE {Then(o, Sorted) : o \in FillRandom(hot, count, lo, hi)}

predict_by_hot_numbers(d, count, lo, hi) ==
    LET hot == get_hot_cold_numbers(d, DefaultHot, DefaultCold).hot
    IN  IF hot = <<>> THEN RandomFallback(count, lo, hi)
        ELSE IF Len(hot) >= count
             THEN {Then(a, SetToSeq) : a \in Sample(Range(hot), count)}
        ELSE {Then(o, Sorted) : o \in FillRandom(hot, count, lo, hi)}

OddNumbers(lo, hi) == {n \in PyRange(lo, hi) : n % 2 = 1}

EvenNumbers(lo, hi) == {n \in PyRange(lo, hi) : n % 2 = 0}

\* selected_odd: the possible choices of up to count // 2 odd numbers
SelectedOdd(count, lo, hi) ==
    LET odd_numbers == OddNumbers(lo, hi)
        odd_count == count \div 2
    IN  IF Cardinality(odd_numbers) >= odd_count
        THEN ChoicesDistinct(odd_numbers, odd_count)
        ELSE {Ok(odd_numbers)}

\* selected_even, given the odd numbers already predicted
SelectedEven(selected_odd, count, lo, hi) ==
    LET even_numbers == EvenNumbers(lo, hi) \ selected_odd
        remaining == count - Cardinality(selected_odd)
    IN  IF Cardinality(even_numbers) >= remaining
        THEN ChoicesDistinct(even_numbers, remaining)
        ELSE {Ok(even_numbers)}

\* The weights max(frequency, 1) are all positive: they change how likely a
\* choice is, not which choices are possible, so d does not occur below.
predict_by_pattern(d, count, lo, hi) ==
    UNION {
        IF so.status = "error" THEN {Err}
        ELSE UNION {
            IF se.status = "error" THEN {Err}
            ELSE SortedPrefix(
                     FillRandom(SetToSeq(so.value) \o SetToSeq(se.value),
                                count, lo, hi), count)
            : se \in SelectedEven(so.value, count, lo, hi)}
        : so \in SelectedOdd(count, lo, hi)}

\* round(10^6 * exp(-age / (0.3 * total_draws))), age = total_draws - idx
ExpTable ==
    << <<35674>>,
       <<188876, 35674>>,
       <<329193, 108368, 35674>>,
       <<434598, 188876, 82085, 35674>>,
       <<513417, 263597, 135335, 69483, 35674>>,
       <<573753, 329193, 188876, 108368, 62177, 35674>>,
       <<621145, 385821, 239651, 148858, 92462, 57433, 35674>> >>

ExpWeight(total_draws, age) == ExpTable[total_draws][age]

\* weighted_freq: each list row adds its weight once per number it holds
WeightedFreq(d) ==
    LET total_draws == Len(d)
        nums == Flatten([i \in DOMAIN d |-> RowNumbers(d[i])])
        keys == Dedup(nums, {})
        RowWeight(i, num) ==
            Occurrences(RowNumbers(d[i]), num)
                * ExpWeight(total_draws, total_draws - (i - 1))
    IN  [k \in DOMAIN keys |->
            <<keys[k], SumSeq([i \in DOMAIN d |-> RowWeight(i, keys[k])])>>]

predict_by_weighted_frequency(d, count, lo, hi) ==
    IF d = <<>> THEN RandomFallback(count, lo, hi)
    ELSE LET weighted_freq == WeightedFreq(d)
         IN  IF weighted_freq = <<>> THEN RandomFallback(count, lo, hi)
             ELSE SortedPrefix(
                      FillRandom(TopKeys(weighted_freq, count), count, lo, hi),
                      count)

\* whether row i of d is a list holding num
RowHolds(d, i, num) == \E j \in DOMAIN RowNumbers(d[i]) : RowNumbers(d[i])[j] = num

\* a faulty variant: a number no draw holds starts with the gap 0
Gap_zero_when_absent(d, num) ==
    LET rows == {i \in DOMAIN d : RowHolds(d, i, num)}
    IN  IF rows = {} THEN 0
        ELSE Len(d) - (CHOOSE i \in rows : \A j \in rows : j <= i)

\* gaps[num]: the draws after the most recent one holding num, len(data) if
\* there is none
Gap(d, num) ==
    LET rows == {i \in DOMAIN d : RowHolds(d, i, num)}
    IN  IF rows = {} THEN Len(d)
        ELSE Len(d) - (CHOOSE i \in rows : \A j \in rows : j <= i)

\* gaps.items(): the numbers of the range in ascending order (the iteration
\* order of the set all_numbers of small non-negative integers)
Gaps(d, lo, hi) ==
    LET all_numbers == SetToSeq(PyRange(lo, hi))
    IN  [k \in DOMAIN all_numbers |-> <<all_numbers[k], Gap(d, all_numbers[k])>>]

\* a faulty variant: the first 2 * count numbers of the range, not ranked
top_due_unranked(d, count, lo, hi) == Keys(Take(Gaps(d, lo, hi), count * 2))

top_due(d, count, lo, hi) == TopKeys(Gaps(d, lo, hi), count * 2)

predict_by_gap_analysis(d, count, lo, hi) ==
    IF d = <<>> THEN RandomFallback(count, lo, hi)
    ELSE LET due == top_due(d, count, lo, hi)
         IN  UNION {
                 IF s.status = "error" THEN {Err}
                 ELSE SortedPrefix(
                          FillRandom(SetToSeq(s.value), count, lo, hi), count)
                 : s \in Sample(Range(due), Min(count, Len(due)))}

predict_by_moving_average(d, count, lo, hi, window) ==
    IF d = <<>> \/ Len(d) < window THEN RandomFallback(count, lo, hi)
    ELSE LET recent_freq == get_frequency_analysis(Tail_(d, window))
         IN  IF recent_freq = <<>> THEN RandomFallback(count, lo, hi)
             ELSE SortedPrefix(
                      FillRandom(TopKeys(recent_freq, count), count, lo, hi),
                      count)

MinDrawsCyclic == 3

\* Scores are held as 120 * score.  The values of random.random() * 0.5 the
\* model draws, times 120: three levels of the interval (0, 0.5), none of
\* them a score CycleScore can give, so that no order rests on a tie between
\* a computed and a random score
RandomScores == {7, 33, 59}

\* appearances: the index labels (0-based) of the rows holding num
Appearances(d, num) == {i - 1 : i \in {j \in DOMAIN d : RowHolds(d, j, num)}}

\* cycle_score of a number with two appearances or more:
\* max(0, 1 - |current_gap - avg_cycle| / avg_cycle), where avg_cycle is
\* (last - first) / (len(appearances) - 1), which is positive
CycleScore(d, num) ==
    LET appearances == Appearances(d, num)
        first == CHOOSE i \in appearances : \A j \in appearances : i <= j
        last == CHOOSE i \in appearances : \A j \in appearances : j <= i
        span == last - first
        n1 == Cardinality(appearances) - 1
        current_gap == Len(d) - last - 1
    IN  Max(0, 120 - (120 * Abs(current_gap * n1 - span)) \div span)

\* cycles.items() for one drawing f of the random low scores
Cycles(d, lo, hi, f) ==
    LET all_numbers == SetToSeq(PyRange(lo, hi))
    IN  [k \in DOMAIN all_numbers |->
            <<all_numbers[k],
              IF Cardinality(Appearances(d, all_numbers[k])) >= 2
              THEN CycleScore(d, all_numbers[k])
              ELSE f[all_numbers[k]]>>]

predict_by_cyclic_pattern(d, count, lo, hi) ==
    IF d = <<>> \/ Len(d) < MinDrawsCyclic THEN RandomFallback(count, lo, hi)
    ELSE LET unseen == {n \in PyRange(lo, hi) :
                           Cardinality(Appearances(d, n)) < 2}
         IN  {Ok(Sorted(Take(TopKeys(Cycles(d, lo, hi, f), count), count))) :
                 f \in [unseen -> RandomScores]}

----------------------------------------------------------------------------
(* LOTTERY_GAMES and LotteryType.  The keys of the registry are written in  *)
(* Latin letters: daletou is 大乐透, qixingcai 七星彩, pailie3 排列三,       *)
(* pailie5 排列五, shuangseqiu 双色球, kuaile8 快乐8, qilecai 七乐彩,        *)
(* fucai3d 福彩3D, tongyong 通用.  A zone is [count, lo, hi]: its 'count'    *)
(* and its 'range' (lo, hi).                                                *)

Zone(count, lo, hi) == [count |-> count, lo |-> lo, hi |-> hi]

LOTTERY_GAMES ==
    [daletou |-> [name |-> "Super Lotto (daletou)",
                  main_numbers |-> Zone(5, 1, 35),
                  bonus_numbers |-> Zone(2, 1, 12)],
     qixingcai |-> [name |-> "7-Star Lottery (qixingcai)",
                    digits |-> Zone(7, 0, 9)],
     pailie3 |-> [name |-> "Pick 3 (pailie3)", digits |-> Zone(3, 0, 9)],
     pailie5 |-> [name |-> "Pick 5 (pailie5)", digits |-> Zone(5, 0, 9)],
     shuangseqiu |-> [name |-> "Double Color Ball (shuangseqiu)",
                      main_numbers |-> Zone(6, 1, 33),
                      bonus_numbers |-> Zone(1, 1, 16)],
     kuaile8 |-> [name |-> "Happy 8 (kuaile8)",
                  main_numbers |-> Zone(10, 1, 80)],
     qilecai |-> [name |-> "7 Happy Lottery (qilecai)",
                  main_numbers |-> Zone(7, 1, 30),
                  bonus_numbers |-> Zone(1, 1, 30)],
     fucai3d |-> [name |-> "Welfare 3D (fucai3d)", digits |-> Zone(3, 0, 9)],
     tongyong |-> [name |-> "General Lottery (tongyong)",
                   main_numbers |-> Zone(6, 1, 49)]]

\* 'key' in self.config
Has(game_type, key) == key \in DOMAIN LOTTERY_GAMES[game_type]

\* a faulty variant: an unknown game becomes the general game
LotteryType_or_general(game_type) ==
    IF game_type \in DOMAIN LOTTERY_GAMES THEN Ok(game_type)
    ELSE Ok("tongyong")

\* LotteryType(game_type): the object is known by its game_type; ValueError
\* for a game that is not a key of LOTTERY_GAMES
LotteryType(game_type) ==
    IF game_type \notin DOMAIN LOTTERY_GAMES THEN Err ELSE Ok(game_type)

get_lottery_type(game_type) == LotteryType(game_type)

get_number_count(game_type) ==
    IF Has(game_type, "main_numbers")
    THEN LOTTERY_GAMES[game_type].main_numbers.count
         + (IF Has(game_type, "bonus_numbers")
            THEN LOTTERY_GAMES[game_type].bonus_numbers.count ELSE 0)
    ELSE IF Has(game_type, "digits")
         THEN LOTTERY_GAMES[game_type].digits.count
    ELSE 6

\* zone['range'] once per number of the zone
Repeated(zone) == [i \in 1..zone.count |-> <<zone.lo, zone.hi>>]

\* a faulty variant: the bonus zone's positions come first
get_number_ranges_bonus_first(game_type) ==
    IF Has(game_type, "main_numbers")
    THEN (IF Has(game_type, "bonus_numbers")
          THEN Repeated(LOTTERY_GAMES[game_type].bonus_numbers)
          ELSE <<>>)
         \o Repeated(LOTTERY_GAMES[game_type].main_numbers)
    ELSE IF Has(game_type, "digits")
         THEN Repeated(LOTTERY_GAMES[game_type].digits)
    ELSE <<>>

get_number_ranges(game_type) ==
    IF Has(game_type, "main_numbers")
    THEN Repeated(LOTTERY_GAMES[game_type].main_numbers)
         \o (IF Has(game_type, "bonus_numbers")
             THEN Repeated(LOTTERY_GAMES[game_type].bonus_numbers)
             ELSE <<>>)
    ELSE IF Has(game_type, "digits")
         THEN Repeated(LOTTERY_GAMES[game_type].digits)
    ELSE <<>>

\* numbers[a:b] for 0 <= a <= b
Slice(numbers, a, b) == SubSeq(numbers, a + 1, Min(b, Len(numbers)))

\* The string format_prediction builds, as its parts: the str() of a list is
\* <<"list", numbers>>, the joined digits are <<"digits", numbers>>.
format_prediction(game_type, numbers) ==
    IF game_type = "daletou"
    THEN IF Len(numbers) >= 7
         THEN <<"Main", Slice(numbers, 0, 5), "Bonus", Slice(numbers, 5, 7)>>
         ELSE <<"list", numbers>>
    ELSE IF game_type = "shuangseqiu"
    THEN IF Len(numbers) >= 7
         THEN <<"Red", Slice(numbers, 0, 6), "Blue", <<numbers[7]>> >>
         ELSE <<"list", numbers>>
    ELSE IF game_type = "kuaile8" THEN <<"Selected", numbers>>
    ELSE IF game_type = "qilecai"
    THEN IF Len(numbers) >= 8
         THEN <<"Main", Slice(numbers, 0, 7), "Special", <<numbers[8]>> >>
         ELSE <<"list", numbers>>
    ELSE IF game_type \in {"qixingcai", "pailie3", "pailie5", "fucai3d"}
    THEN <<"digits", numbers>>
    ELSE <<"list", numbers>>

\* a faulty variant: a repeated number makes the list invalid
validate_numbers_distinct(game_type, numbers) ==
    LET ranges == get_number_ranges(game_type)
    IN  /\ Len(numbers) = Len(ranges)
        /\ \A i \in DOMAIN numbers :
               ranges[i][1] <= numbers[i] /\ numbers[i] <= ranges[i][2]
        /\ \A i, j \in DOMAIN numbers : i # j => numbers[i] # numbers[j]

validate_numbers(game_type, numbers) ==
    LET ranges == get_number_ranges(game_type)
    IN  /\ Len(numbers) = Len(ranges)
        /\ \A i \in DOMAIN numbers :
               ranges[i][1] <= numbers[i] /\ numbers[i] <= ranges[i][2]

----------------------------------------------------------------------------
(* PredictionEngine: the ensemble and the prediction for the engine's game *)

DefaultAlgorithms == <<"frequency", "hot_cold", "pattern">>

DefaultMinDataPoints == 10

DefaultWindow == 10

\* the order in which predict_combined asks the algorithms
AlgorithmOrder ==
    <<"frequency", "hot_cold", "pattern", "weighted_frequency",
      "gap_analysis", "moving_average", "cyclic_pattern">>

\* the prediction predict_combined files under name
Algorithm(name, d, count, lo, hi) ==
    CASE name = "frequency" -> predict_by_frequency(d, count, lo, hi)
      [] name = "hot_cold" -> predict_by_hot_numbers(d, count, lo, hi)
      [] name = "pattern" -> predict_by_pattern(d, count, lo, hi)
      [] name = "weighted_frequency" ->
             predict_by_weighted_frequency(d, count, lo, hi)
      [] name = "gap_analysis" -> predict_by_gap_analysis(d, count, lo, hi)
      [] name = "moving_average" ->
             predict_by_moving_average(d, count, lo, hi, DefaultWindow)
      [] name = "cyclic_pattern" -> predict_by_cyclic_pattern(d, count, lo, hi)

\* predictions before the vote: <<name, list>> for each of names, in order
RECURSIVE AlgorithmPredictions(_, _, _, _, _)
AlgorithmPredictions(names, d, count, lo, hi) ==
    IF names = <<>> THEN {Ok(<<>>)}
    ELSE LET n == Len(names)
         IN  {IF a.status = "error" \/ b.status = "error" THEN Err
              ELSE Ok(Append(a.value, <<names[n], b.value>>)) :
                 a \in AlgorithmPredictions(SubSeq(names, 1, n - 1),
                                            d, count, lo, hi),
                 b \in Algorithm(names[n], d, count, lo, hi)}

\* a faulty variant: the candidates are taken as first seen, not by votes
Ensemble_unranked(predictions, count, lo, hi) ==
    LET all_predicted == Flatten(Values(predictions))
        ensemble_numbers == Take(Dedup(all_predicted, {}), count)
    IN  SortedPrefix(FillRandom(ensemble_numbers, count, lo, hi), count)

\* predictions['ensemble']: the first count numbers by votes, filled from
\* the rest of the range when the candidates are too few
Ensemble(predictions, count, lo, hi) ==
    LET all_predicted == Flatten(Values(predictions))
        votes == Counter(all_predicted)
        ensemble_numbers == TopKeys(votes, count)
    IN  SortedPrefix(FillRandom(ensemble_numbers, count, lo, hi), count)

predict_combined(algs, d, count, lo, hi) ==
    LET used == SelectSeq(AlgorithmOrder, LAMBDA n : n \in Range(algs))
    IN  UNION {
            IF p.status = "error" THEN {Err}
            ELSE {Then(e, LAMBDA nums : Append(p.value, <<"ensemble", nums>>)) :
                     e \in Ensemble(p.value, count, lo, hi)}
            : p \in AlgorithmPredictions(used, d, count, lo, hi)}

\* predictions.get(key, default)
Get(predictions, key, default) ==
    IF \E i \in DOMAIN predictions : predictions[i][1] = key
    THEN predictions[CHOOSE i \in DOMAIN predictions :
                         predictions[i][1] = key][2]
    ELSE default

Fraction(num, den) == [num |-> num, den |-> den]

\* min(1.0, data_points / (min_data * 5)) as a fraction, not reduced;
\* ZeroDivisionError when min_data is 0
Confidence(data_points, min_data) ==
    LET den == min_data * 5
    IN  IF den = 0 THEN Err
        ELSE IF den > 0 /\ data_points >= den THEN Ok(Fraction(1, 1))
        ELSE Ok(Fraction(data_points, den))

generate_prediction_with_confidence(algs, min_data, d, count, lo, hi) ==
    LET data_points == Len(d)
        confidence == Confidence(data_points, min_data)
    IN  {IF p.status = "error" \/ confidence.status = "error" THEN Err
         ELSE Ok([predictions |-> p.value,
                  recommended |->
                      Get(p.value, "ensemble", Get(p.value, "frequency", <<>>)),
                  confidence |-> confidence.value,
                  data_points_used |-> data_points,
                  algorithms_used |-> algs]) :
            p \in predict_combined(algs, d, count, lo, hi)}

\* (a + b) / 2 of two fractions
Mean(a, b) == Fraction(a.num * b.den + b.num * a.den, 2 * a.den * b.den)

\* The values of random.randint(0, 9) the model draws: the two ends
DigitValues == {0, 9}

\* the requests (count, number_range) predict_for_lottery_type passes to
\* generate_prediction_with_confidence, in the order of the calls
EnsembleRuns(game_type) ==
    IF game_type = "daletou" THEN <<Zone(5, 1, 35), Zone(2, 1, 12)>>
    ELSE IF game_type \in {"qixingcai", "pailie3", "pailie5"} THEN <<>>
    ELSE LET ranges == get_number_ranges(game_type)
             number_range == IF ranges # <<>> THEN ranges[1] ELSE <<1, 49>>
         IN  <<Zone(get_number_count(game_type),
                    number_range[1], number_range[2])>>

predict_for_lottery_type(game_type, algs, min_data, d) ==
    LET name == LOTTERY_GAMES[game_type].name
        runs == EnsembleRuns(game_type)
        Run(i) == generate_prediction_with_confidence(
                      algs, min_data, d, runs[i].count, runs[i].lo, runs[i].hi)
    IN  IF game_type = "daletou"
        THEN {IF main_pred.status = "error" \/ bonus_pred.status = "error"
              THEN Err
              ELSE LET main == Slice(main_pred.value.recommended, 0, 5)
                       bonus == Slice(bonus_pred.value.recommended, 0, 2)
                   IN  Ok([lottery_type |-> name,
                           main_numbers |-> main,
                           bonus_numbers |-> bonus,
                           formatted |->
                               format_prediction(game_type, main \o bonus),
                           confidence |-> Mean(main_pred.value.confidence,
                                               bonus_pred.value.confidence),
                           algorithms_used |->
                               main_pred.value.algorithms_used]) :
                 main_pred \in Run(1), bonus_pred \in Run(2)}
        ELSE IF game_type \in {"qixingcai", "pailie3", "pailie5"}
        THEN {Ok([lottery_type |-> name,
                  digits |-> digits,
                  formatted |-> format_prediction(game_type, digits),
                  confidence |-> Fraction(1, 2),
                  algorithms_used |-> <<"random">>]) :
                 digits \in [1..get_number_count(game_type) -> DigitValues]}
        ELSE {Then(result, LAMBDA r :
                  [predictions |-> r.predictions,
                   recommended |-> r.recommended,
                   confidence |-> r.confidence,
                   data_points_used |-> r.data_points_used,
                   algorithms_used |-> r.algorithms_used,
                   lottery_type |-> name,
                   formatted |-> format_prediction(game_type, r.recommended)]) :
                 result \in Run(1)}

----------------------------------------------------------------------------
(* RecordManager  (src/src/core/record_manager.py).  A record is the dict    *)
(* [id, title, created_at, updated_at]; an id f"record_{n}_{timestamp}" is  *)
(* the pair <<n, timestamp>>, the timestamp having the clock's resolution   *)
(* of one second.  Every add_record call is given a dict of its own.        *)

\* f"record_{len(self.records) + 1}_{datetime.now().strftime(...)}"
NewRecordId(recs, t) == <<Len(recs) + 1, t>>

NoneValue == [status |-> "none", value |-> <<>>]

\* the position of the first record with this id, 0 when there is none
FirstWithId(recs, record_id) ==
    IF \E i \in DOMAIN recs : recs[i].id = record_id
    THEN CHOOSE i \in DOMAIN recs :
             /\ recs[i].id = record_id
             /\ \A j \in 1..(i - 1) : recs[j].id # record_id
    ELSE 0

get_record(recs, record_id) ==
    IF FirstWithId(recs, record_id) = 0 THEN NoneValue
    ELSE Ok(recs[FirstWithId(recs, record_id)])

\* record.update(updates); record['updated_at'] = now
Updated(record, updates, t) ==
    [k \in DOMAIN record |->
        IF k = "updated_at" THEN t
        ELSE IF k \in DOMAIN updates THEN updates[k]
        ELSE record[k]]

\* self.records.pop(i)
Pop(recs, i) == SubSeq(recs, 1, i - 1) \o SubSeq(recs, i + 1, Len(recs))

----------------------------------------------------------------------------
(* Inputs *)

Nums == 1..MaxNum

SeqsUpTo(S, n) == UNION {[1..k -> S] : k \in 0..n}

\* draws in any order and with repeats, the empty draw included
AnyDraws == {ListDraw(s) : s \in SeqsUpTo(Nums, MaxDrawLen)}

\* non-empty draws of distinct numbers in ascending order
SortedDraws ==
    {ListDraw(s) : s \in {t \in SeqsUpTo(Nums, MaxDrawLen) :
        /\ t # <<>>
        /\ \A i \in 1..(Len(t) - 1) : t[i] < t[i + 1]}}

HistoriesA == SeqsUpTo(AnyDraws, MaxDrawsA)

HistoriesP == SeqsUpTo(SortedDraws, MaxDraws)

Counts == 0..MaxCount

\* number_range arguments (lo, hi), with lo > hi and lo = hi among them
Los == {0, 1, 2}

His == 1..MaxNum

Windows == 1..MaxWindow

Thresholds == {3, 5, 7}

Titles == {"a", "b"}

\* an id no add_record call makes
CustomId == <<0, 0>>

\* the ids add_record can make
AddedIds == {<<n, t>> : n \in 1..MaxRecords, t \in 0..MaxClock}

\* the ids asked for
RecordIds == AddedIds \cup {CustomId}

\* the updates dicts: a new title, or a new id
Updates == {[title |-> t] : t \in Titles} \cup {[id |-> CustomId]}

\* the tokens of the string draws
Tokens ==
    {Token("digits", 1), Token("digits", 2), Token("padded", 3),
     Token("signed", 2), Token("word", 0), Token("superscript", 2)}

\* split(',') gives at least one token
StrDraws ==
    {StrDraw(s) : s \in SeqsUpTo(Tokens, MaxTokens) \ {<<>>}}

\* histories whose draws are lists or strings
HistoriesS == SeqsUpTo(AnyDraws \cup StrDraws, MaxDrawsS)

\* window arguments of get_pattern_analysis, the default among them
PatternWindows == (0..MaxWindow) \cup {DefaultPatternWindow}

\* game ids asked for: every key of LOTTERY_GAMES and two that are not keys
UnknownIds == {"lotto649", ""}

RequestedIds == DOMAIN LOTTERY_GAMES \cup UnknownIds

\* config dicts: no entry, prediction_algorithms, and min_data_points too
Configs ==
    {<<>>,
     [prediction_algorithms |-> <<"frequency">>],
     [prediction_algorithms |-> <<"frequency">>, min_data_points |-> 2]}

\* one draw of daletou (5 of 1..35, then 2 of 1..12) and one of shuangseqiu
\* (6 of 1..33, then 1 of 1..16)
GameDraws ==
    {ListDraw(<<13, 18, 23, 30, 34, 3, 11>>),
     ListDraw(<<3, 9, 14, 22, 27, 31, 8>>)}

HistoriesG == SeqsUpTo(GameDraws, MaxDrawsG)

\* histories loaded one after the other into one engine
FrameDraws == {ListDraw(<<1, 2>>), ListDraw(<<2, 3>>)}

HistoriesF == SeqsUpTo(FrameDraws, MaxDrawsF)

\* the requests served between the loads
RequestsF == {[count |-> 2, lo |-> 1, hi |-> 3, window |-> 0],
              [count |-> 1, lo |-> 1, hi |-> 2, window |-> 0]}

\* histories loaded before an ensemble: every short one, and longer ones that
\* repeat one draw
HistoriesC ==
    SeqsUpTo(SortedDraws, MaxDrawsC)
        \cup {[i \in 1..k |-> ListDraw(<<1, 2>>)] : k \in 1..MaxDrawsL}

\* config dicts of the engines asked for an ensemble
ConfigsC ==
    {<<>>,
     [prediction_algorithms |-> <<>>],
     [prediction_algorithms |-> <<"frequency">>],
     [prediction_algorithms |-> <<"pattern", "frequency">>],
     [prediction_algorithms |-> <<"gap_analysis", "moving_average">>],
     [prediction_algorithms |-> <<"frequency", "markov">>],
     [prediction_algorithms |-> <<"frequency">>, min_data_points |-> 1],
     [prediction_algorithms |-> <<"frequency">>, min_data_points |-> 0],
     [prediction_algorithms |-> <<"frequency">>, min_data_points |-> -1]}

----------------------------------------------------------------------------
(* State machine *)

NoArgs == [count |-> 0, lo |-> 0, hi |-> 0, window |-> 0]

Requests == {[count |-> c, lo |-> l, hi |-> h, window |-> 0] :
                c \in Counts, l \in Los, h \in His}

Returned(op, args, out) == [op |-> op, args |-> args, out |-> out]

\* PredictionEngine() right after construction
\* no record manager is in use
NoManager == records = <<>> /\ stored = <<>> /\ now = 0

Constructed ==
    /\ lottery_type = "shuangseqiu"
    /\ algorithms = DefaultAlgorithms
    /\ min_data_points = DefaultMinDataPoints

InitEngine ==
    /\ Constructed
    /\ data = <<>>
    /\ request = NoArgs
    /\ statistics = <<>>
    /\ NoManager
    /\ ret = Returned("__init__", NoArgs, Ok(<<>>))

Load(h) ==
    /\ data' = h
    /\ ret' = Returned("load_historical_data", NoArgs, Ok(<<>>))
    /\ UNCHANGED <<lottery_type, algorithms, min_data_points, statistics,
                   request, manager>>

\* a call that reads the engine and returns one of outs
Call(op, args, outs) ==
    /\ \E o \in outs : ret' = Returned(op, args, o)
    /\ UNCHANGED <<lottery_type, algorithms, min_data_points, data,
                   statistics, request, manager>>

(* DataAnalyzer: loads and analyses *)

LoadData == \E h \in HistoriesA : Load(h)

\* a faulty variant: the analysis uses up the oldest draw it has read
GetFrequencyAnalysis_consuming ==
    /\ ret' = Returned("get_frequency_analysis", NoArgs,
                       get_frequency_analysis_call(data))
    /\ data' = Tail_(data, Len(data) - 1)
    /\ UNCHANGED <<lottery_type, algorithms, min_data_points, statistics,
                   request, manager>>

GetFrequencyAnalysis ==
    Call("get_frequency_analysis", NoArgs, {get_frequency_analysis_call(data)})

GetHotColdNumbers ==
    \E hot10 \in Thresholds, cold10 \in Thresholds :
        Call("get_hot_cold_numbers",
             [hot_threshold10 |-> hot10, cold_threshold10 |-> cold10],
             {Ok(get_hot_cold_numbers(data, hot10, cold10))})

NextAnalyzer ==
    \/ LoadData
    \/ GetFrequencyAnalysis
    \/ GetHotColdNumbers

SpecAnalyzer == InitEngine /\ [][NextAnalyzer]_vars

(* DataAnalyzer: one analyzer with a history loaded whose draws are lists  *)
(* or comma-delimited strings is asked for its frequency table and its     *)
(* pattern summary, any number of times.                                    *)

InitParse ==
    /\ Constructed
    /\ data \in HistoriesS
    /\ request = NoArgs
    /\ statistics = <<>>
    /\ NoManager
    /\ ret = Returned("load_data", NoArgs, Ok(<<>>))

GetPatternAnalysis ==
    \E window \in PatternWindows :
        Call("get_pattern_analysis", [window |-> window],
             {get_pattern_analysis(data, window)})

NextParse ==
    \/ GetFrequencyAnalysis
    \/ GetPatternAnalysis

SpecParse == InitParse /\ [][NextParse]_vars

(* PredictionEngine: one engine with a history loaded serves one request  *)
(* (count, number_range) with each of the seven operations, any number of  *)
(* times.  The operations read the engine and change nothing in it.        *)

InitPredict ==
    /\ Constructed
    /\ data \in HistoriesP
    /\ request \in Requests
    /\ statistics = <<>>
    /\ NoManager
    /\ ret = Returned("load_historical_data", NoArgs, Ok(<<>>))

PredictByFrequency ==
    Call("predict_by_frequency", request,
         predict_by_frequency(data, request.count, request.lo, request.hi))

PredictByHotNumbers ==
    Call("predict_by_hot_numbers", request,
         predict_by_hot_numbers(data, request.count, request.lo, request.hi))

PredictByPattern ==
    Call("predict_by_pattern", request,
         predict_by_pattern(data, request.count, request.lo, request.hi))

PredictByWeightedFrequency ==
    Call("predict_by_weighted_frequency", request,
         predict_by_weighted_frequency(data, request.count, request.lo,
                                       request.hi))

PredictByGapAnalysis ==
    Call("predict_by_gap_analysis", request,
         predict_by_gap_analysis(data, request.count, request.lo, request.hi))

PredictByMovingAverage ==
    \E window \in Windows :
        Call("predict_by_moving_average", [request EXCEPT !.window = window],
             predict_by_moving_average(data, request.count, request.lo,
                                       request.hi, window))

PredictByCyclicPattern ==
    Call("predict_by_cyclic_pattern", request,
         predict_by_cyclic_pattern(data, request.count, request.lo, request.hi))

NextPredict ==
    \/ PredictByFrequency
    \/ PredictByHotNumbers
    \/ PredictByPattern
    \/ PredictByWeightedFrequency
    \/ PredictByGapAnalysis
    \/ PredictByMovingAverage
    \/ PredictByCyclicPattern

SpecPredict == InitPredict /\ [][NextPredict]_vars

(* Games: LotteryType objects and engines are made for the ids asked for,  *)
(* the engine last made is loaded with histories and asked for its game's  *)
(* prediction.                                                             *)

NoEngine == "no engine"

\* config.get(key, default)
ConfigGet(config, key, default) ==
    IF key \in DOMAIN config THEN config[key] ELSE default

InitGame ==
    /\ lottery_type = NoEngine
    /\ algorithms = <<>>
    /\ min_data_points = 0
    /\ data = <<>>
    /\ request = NoArgs
    /\ statistics = <<>>
    /\ NoManager
    /\ ret = Returned("import", NoArgs, Ok(<<>>))

GetLotteryType ==
    \E id \in RequestedIds :
        Call("get_lottery_type", [game_type |-> id], {get_lottery_type(id)})

\* engine = PredictionEngine(config, lottery_type=id): when get_lottery_type
\* raises, no engine is made and the one held before stays
NewPredictionEngine ==
    \E config \in Configs, id \in RequestedIds :
        LET made == get_lottery_type(id)
            args == [game_type |-> id, config |-> config]
        IN  IF made.status = "error"
            THEN Call("PredictionEngine", args, {Err})
            ELSE /\ lottery_type' = made.value
                 /\ algorithms' = ConfigGet(config, "prediction_algorithms",
                                            DefaultAlgorithms)
                 /\ min_data_points' = ConfigGet(config, "min_data_points",
                                                 DefaultMinDataPoints)
                 /\ data' = <<>>
                 /\ statistics' = <<>>
                 /\ ret' = Returned("PredictionEngine", args, Ok(made.value))
                 /\ UNCHANGED <<request, manager>>

LoadHistoricalData ==
    /\ lottery_type # NoEngine
    /\ \E h \in HistoriesG : Load(h)

PredictForLotteryType ==
    /\ lottery_type # NoEngine
    /\ Call("predict_for_lottery_type", NoArgs,
            predict_for_lottery_type(lottery_type, algorithms,
                                     min_data_points, data))

NextGame ==
    \/ GetLotteryType
    \/ NewPredictionEngine
    \/ LoadHistoricalData
    \/ PredictForLotteryType

SpecGame == InitGame /\ [][NextGame]_vars

(* PredictionEngine: one engine made with a config, with a history loaded, *)
(* serves one request (count, number_range) with predict_combined and with *)
(* generate_prediction_with_confidence, any number of times.               *)

InitCombined ==
    /\ lottery_type = "shuangseqiu"
    /\ \E config \in ConfigsC :
           /\ algorithms = ConfigGet(config, "prediction_algorithms",
                                     DefaultAlgorithms)
           /\ min_data_points = ConfigGet(config, "min_data_points",
                                          DefaultMinDataPoints)
    /\ data \in HistoriesC
    /\ request \in Requests
    /\ statistics = <<>>
    /\ NoManager
    /\ ret = Returned("load_historical_data", NoArgs, Ok(<<>>))

PredictCombined ==
    Call("predict_combined", request,
         predict_combined(algorithms, data, request.count, request.lo,
                          request.hi))

GeneratePredictionWithConfidence ==
    Call("generate_prediction_with_confidence", request,
         generate_prediction_with_confidence(algorithms, min_data_points, data,
                                             request.count, request.lo,
                                             request.hi))

NextCombined ==
    \/ PredictCombined
    \/ GeneratePredictionWithConfidence

SpecCombined == InitCombined /\ [][NextCombined]_vars

(* Frame: one engine is loaded with histories again and again and asked   *)
(* for analyses and predictions in between, in any order.                  *)

InitFrame ==
    /\ Constructed
    /\ data = <<>>
    /\ statistics = <<>>
    /\ request \in RequestsF
    /\ NoManager
    /\ ret = Returned("__init__", NoArgs, Ok(<<>>))

\* a faulty variant: the draws loaded are added to the ones held
LoadHistory_appending ==
    /\ \E h \in HistoriesF :
           /\ data' = (IF Len(data) + Len(h) <= MaxDrawsF THEN data \o h ELSE h)
           /\ ret' = Returned("load_historical_data", [history |-> h],
                              Ok(<<>>))
    /\ UNCHANGED <<lottery_type, algorithms, min_data_points, statistics,
                   request, manager>>

\* engine.load_historical_data(h): the analyzer holds a copy of h
LoadHistory ==
    /\ \E h \in HistoriesF :
           /\ data' = h
           /\ ret' = Returned("load_historical_data", [history |-> h],
                              Ok(<<>>))
    /\ UNCHANGED <<lottery_type, algorithms, min_data_points, statistics,
                   request, manager>>

\* engine.analyzer.get_statistics_summary(): the summary is kept
GetStatisticsSummary ==
    LET summary == get_statistics_summary(data)
    IN  /\ ret' = Returned("get_statistics_summary", NoArgs, summary)
        /\ statistics' = (IF summary.status = "ok" THEN summary.value
                          ELSE statistics)
        /\ UNCHANGED <<lottery_type, algorithms, min_data_points, data,
                       request, manager>>

NextFrame ==
    \/ LoadHistory
    \/ GetFrequencyAnalysis
    \/ GetHotColdNumbers
    \/ GetPatternAnalysis
    \/ GetStatisticsSummary
    \/ NextPredict
    \/ NextCombined

SpecFrame == InitFrame /\ [][NextFrame]_vars

(* Records: one RecordManager on an empty storage file adds, updates,      *)
(* removes and looks up records while the clock runs.  The engine is not  *)
(* involved.                                                                *)

Engine == <<lottery_type, algorithms, min_data_points, data, statistics,
            request>>

InitRecords ==
    /\ Constructed
    /\ data = <<>>
    /\ request = NoArgs
    /\ statistics = <<>>
    /\ NoManager
    /\ ret = Returned("RecordManager", NoArgs, Ok(<<>>))

\* a second passes
Tick ==
    /\ now < MaxClock
    /\ now' = now + 1
    /\ UNCHANGED <<Engine, ret, records, stored>>

AddRecord ==
    /\ Len(records) < MaxRecords
    /\ \E title \in Titles :
           LET record_id == NewRecordId(records, now)
           IN  /\ records' = Append(records,
                                    [id |-> record_id, title |-> title,
                                     created_at |-> now, updated_at |-> now])
               /\ stored' = records'
               /\ ret' = Returned("add_record", [title |-> title],
                                  Ok(record_id))
    /\ UNCHANGED <<Engine, now>>

GetRecord ==
    /\ \E record_id \in RecordIds :
           ret' = Returned("get_record", [id |-> record_id],
                           get_record(records, record_id))
    /\ UNCHANGED <<Engine, manager>>

UpdateRecord ==
    /\ \E record_id \in RecordIds, updates \in Updates :
           LET i == FirstWithId(records, record_id)
               args == [id |-> record_id, updates |-> updates]
           IN  IF i = 0
               THEN /\ ret' = Returned("update_record", args, Ok(FALSE))
                    /\ UNCHANGED <<records, stored>>
               ELSE /\ records' = [records EXCEPT
                                      ![i] = Updated(records[i], updates, now)]
                    /\ stored' = records'
                    /\ ret' = Returned("update_record", args, Ok(TRUE))
    /\ UNCHANGED <<Engine, now>>

RemoveRecord ==
    /\ \E record_id \in RecordIds :
           LET i == FirstWithId(records, record_id)
               args == [id |-> record_id]
           IN  IF i = 0
               THEN /\ ret' = Returned("remove_record", args, Ok(FALSE))
                    /\ UNCHANGED <<records, stored>>
               ELSE /\ records' = Pop(records, i)
                    /\ stored' = records'
                    /\ ret' = Returned("remove_record", args, Ok(TRUE))
    /\ UNCHANGED <<Engine, now>>

NextRecords ==
    \/ Tick
    \/ AddRecord
    \/ GetRecord
    \/ UpdateRecord
    \/ RemoveRecord

SpecRecords == InitRecords /\ [][NextRecords]_vars

(* Records added and removed only *)

NextAddRemove ==
    \/ Tick
    \/ AddRecord
    \/ RemoveRecord

SpecAddRemove == InitRecords /\ [][NextAddRemove]_vars

(* Rules: one LotteryType object of a registered game is asked for its     *)
(* number count and its ranges and validates lists of numbers, any number  *)
(* of times.  The methods read the object and change nothing in it.        *)

\* the zones of a game, whatever their keys
ZoneSet(game_type) ==
    {LOTTERY_GAMES[game_type][k] :
        k \in DOMAIN LOTTERY_GAMES[game_type]
                 \cap {"main_numbers", "bonus_numbers", "digits"}}

\* the ends of the game's ranges and their outer neighbours
BoundaryValues(game_type) ==
    UNION {{z.lo - 1, z.lo, z.hi, z.hi + 1} : z \in ZoneSet(game_type)}

\* the numbers of the game over all its zones
ZoneTotal(game_type) ==
    LET config == LOTTERY_GAMES[game_type]
        keys == <<"main_numbers", "bonus_numbers", "digits">>
    IN  SumSeq([i \in DOMAIN keys |->
                   IF keys[i] \in DOMAIN config THEN config[keys[i]].count
                   ELSE 0])

\* lists one shorter, as long and one longer than the game's ticket: one
\* boundary value at every position but one, which holds another
NumberLists(game_type) ==
    LET n == ZoneTotal(game_type)
        B == BoundaryValues(game_type)
    IN  {[i \in 1..len |-> IF i = k THEN v ELSE a] :
            len \in (n - 1)..(n + 1), k \in 1..(n + 1), v \in B, a \in B}

InitRules ==
    /\ \E id \in DOMAIN LOTTERY_GAMES :
           /\ lottery_type = LotteryType(id).value
           /\ ret = Returned("LotteryType", [game_type |-> id], LotteryType(id))
    /\ algorithms = <<>>
    /\ min_data_points = 0
    /\ data = <<>>
    /\ request = NoArgs
    /\ statistics = <<>>
    /\ NoManager

GetNumberCount ==
    Call("get_number_count", NoArgs, {Ok(get_number_count(lottery_type))})

GetNumberRanges ==
    Call("get_number_ranges", NoArgs, {Ok(get_number_ranges(lottery_type))})

ValidateNumbers ==
    \E numbers \in NumberLists(lottery_type) :
        Call("validate_numbers", [numbers |-> numbers],
             {Ok(validate_numbers(lottery_type, numbers))})

NextRules ==
    \/ GetNumberCount
    \/ GetNumberRanges
    \/ ValidateNumbers

SpecRules == InitRules /\ [][NextRules]_vars

----------------------------------------------------------------------------
(* Properties of DataAnalyzer, checked under SpecAnalyzer *)

ReturnedFrom(op) == ret.op = op /\ ret.out.status = "ok"

\* sum(len(d.numbers) for d in draws)
TotalNumbers(d) == SumSeq([i \in DOMAIN d |-> Len(d[i].items)])

DistinctValues(items) == Range(Values(items))

\* C8: for every non-empty loaded draw sequence, the counts of the table
\* get_frequency_analysis returns sum to the total number of numbers over all
\* draws.
C8_FrequencySumsToTotal ==
    (ReturnedFrom("get_frequency_analysis") /\ data # <<>>)
        => SumSeq(Values(ret.out.value)) = TotalNumbers(data)

C8_Witness ==
    /\ ReturnedFrom("get_frequency_analysis")
    /\ Len(data) = 2
    /\ \E i \in DOMAIN ret.out.value : ret.out.value[i][2] = 3

HotColdDisjoint == Range(ret.out.value.hot) \cap Range(ret.out.value.cold) = {}

\* C9 as stated: the hot set and the cold set of get_hot_cold_numbers are
\* disjoint whenever hot_threshold > cold_threshold and the observed
\* frequencies take more than one distinct value.
C9_DisjointWhenThresholdsOrdered ==
    (/\ ReturnedFrom("get_hot_cold_numbers")
     /\ ret.args.hot_threshold10 > ret.args.cold_threshold10
     /\ Cardinality(DistinctValues(get_frequency_analysis(data))) > 1)
        => HotColdDisjoint

\* C9 as amended: the hot set and the cold set are disjoint whenever the hot
\* cutoff (the hot percentile of the frequencies) is strictly greater than
\* the cold cutoff.
C9_DisjointWhenCutoffsOrdered ==
    (/\ ReturnedFrom("get_hot_cold_numbers")
     /\ get_frequency_analysis(data) # <<>>
     /\ Percentile10(Values(get_frequency_analysis(data)),
                     ret.args.hot_threshold10)
          > Percentile10(Values(get_frequency_analysis(data)),
                         ret.args.cold_threshold10))
        => HotColdDisjoint

C9_Witness ==
    /\ ReturnedFrom("get_hot_cold_numbers")
    /\ ret.args.hot_threshold10 = DefaultHot
    /\ ret.args.cold_threshold10 = DefaultCold
    /\ Cardinality(DistinctValues(get_frequency_analysis(data))) > 1
    /\ ret.out.value.hot # <<>>
    /\ ret.out.value.cold # <<>>
    /\ HotColdDisjoint

ZeroVariance(d) ==
    /\ get_frequency_analysis(d) # <<>>
    /\ Cardinality(DistinctValues(get_frequency_analysis(d))) = 1

DefaultPercentiles ==
    /\ ret.args.hot_threshold10 = DefaultHot
    /\ ret.args.cold_threshold10 = DefaultCold

Observed(d) == UNION {Range(d[i].items) : i \in DOMAIN d}

\* C10: when every observed number has the same frequency,
\* get_hot_cold_numbers with the default percentiles returns every observed
\* number in the hot set and every observed number in the cold set.
C10_ZeroVarianceAllHotAllCold ==
    (ReturnedFrom("get_hot_cold_numbers") /\ DefaultPercentiles
        /\ ZeroVariance(data))
        => /\ ret.out.value.hot = SetToSeq(Observed(data))
           /\ ret.out.value.cold = SetToSeq(Observed(data))

C10_Witness ==
    /\ ReturnedFrom("get_hot_cold_numbers")
    /\ DefaultPercentiles
    /\ ZeroVariance(data)
    /\ Cardinality(Observed(data)) >= 2
    /\ \A i \in DOMAIN get_frequency_analysis(data) :
           get_frequency_analysis(data)[i][2] = 2
    /\ Len(ret.out.value.hot) >= 2

----------------------------------------------------------------------------
(* Properties of the history over loads and calls, checked under SpecFrame *)

\* C28: over every sequence of loads, analyses and predictions on one engine
\* the history is empty before any load, a load makes it exactly the
\* argument of that load, replacing what was held, and no other call
\* changes it.
C28_HistoryIsLastLoad ==
    [][/\ ret.op = "__init__" => data = <<>>
       /\ IF ret'.op = "load_historical_data"
          THEN data' = ret'.args.history
          ELSE data' = data
      ]_vars

\* a summary was kept for a history of another length, a history was loaded
\* over it, and a prediction was served after that
C28_Witness ==
    /\ ret.op = "predict_combined"
    /\ statistics # <<>>
    /\ statistics.total_draws = 2
    /\ Len(data) = 1

----------------------------------------------------------------------------
(* Properties of the parsing and of the pattern summary, checked under      *)
(* SpecParse                                                                *)

\* the token can be parsed as a number
Parsable(t) == int(t) # Err

\* every number of the rows: a list row's numbers, a string row's parsable
\* tokens
ParsableNumbers(d) ==
    Flatten([i \in DOMAIN d |->
                IF IsStr(d[i])
                THEN LET kept == SelectSeq(d[i].tokens, Parsable)
                     IN  [k \in DOMAIN kept |-> int(kept[k]).value]
                ELSE d[i].items])

HasStringDraw(d) == \E i \in DOMAIN d : IsStr(d[i])

\* C18: when a draw's numbers are given as a comma-delimited string,
\* get_frequency_analysis raises no error, skips only the tokens that cannot
\* be parsed as numbers and counts every parsable number of that draw.
C18_UnparsableTokensSkipped ==
    (ret.op = "get_frequency_analysis" /\ HasStringDraw(data))
        => ret.out = Ok(Counter(ParsableNumbers(data)))

\* C19: get_pattern_analysis called with fewer loaded draws than window
\* returns the default pattern summary with every field zero: consecutive
\* count 0, odd ratio 0, high ratio 0, sum_range (0, 0).
C19_ShortHistoryGivesZeroSummary ==
    (ret.op = "get_pattern_analysis" /\ Len(data) < ret.args.window)
        => ret.out = Ok(DefaultPatterns)

\* the adjacent pairs differing by exactly 1 among the numbers in ascending
\* order
ConsecutivePairs(numbers) ==
    Cardinality({i \in 1..(Len(numbers) - 1) :
                    Sorted(numbers)[i + 1] - Sorted(numbers)[i] = 1})

\* the last w draws of a history of at least w draws
RecentDraws(d, w) == [i \in 1..w |-> d[Len(d) - w + i]]

\* C25: with at least window draws loaded, the consecutive count of
\* get_pattern_analysis equals, summed over exactly the most recent window
\* draws, the number of adjacent pairs differing by exactly 1 in each draw's
\* numbers sorted ascending, and every history with the same most recent
\* window draws gets the same summary.
C25_ConsecutiveOverWindow ==
    (ret.op = "get_pattern_analysis"
        /\ ret.args.window >= 1 /\ Len(data) >= ret.args.window)
        => /\ ret.out.status = "ok"
           /\ Get(ret.out.value, "consecutive_numbers", -1)
                = SumSeq([i \in 1..ret.args.window |->
                     ConsecutivePairs(ParsableNumbers(
                         <<RecentDraws(data, ret.args.window)[i]>>))])
           /\ \A h \in HistoriesS :
                  (Len(h) >= ret.args.window
                      /\ RecentDraws(h, ret.args.window)
                           = RecentDraws(data, ret.args.window))
                      => get_pattern_analysis(h, ret.args.window) = ret.out

----------------------------------------------------------------------------
(* Properties of the seven prediction operations, checked under SpecPredict *)

PredictionOps ==
    {"predict_by_frequency", "predict_by_hot_numbers", "predict_by_pattern",
     "predict_by_weighted_frequency", "predict_by_gap_analysis",
     "predict_by_moving_average", "predict_by_cyclic_pattern"}

IsPrediction == ret.op \in PredictionOps

Succeeded == ret.out.status = "ok"

Distinct(s) == \A i, j \in DOMAIN s : i # j => s[i] # s[j]

RangeSize(a) == a.hi - a.lo + 1

\* 1 <= count <= max - min + 1
CountFits(a) == 1 <= a.count /\ a.count <= RangeSize(a)

WithinRange(s, a) == \A i \in DOMAIN s : a.lo <= s[i] /\ s[i] <= a.hi

\* min < max and 1 <= count <= max - min + 1
WellFormedRequest(a) == a.lo < a.hi /\ CountFits(a)

\* C1: each of the seven prediction operations returns exactly `count`
\* pairwise-distinct numbers, for every loaded history and every count and
\* range with 1 <= count <= max - min + 1.
C1_ReturnsCountDistinct ==
    (IsPrediction /\ CountFits(ret.args))
        => /\ Succeeded
           /\ Len(ret.out.value) = ret.args.count
           /\ Distinct(ret.out.value)

\* C2: every number returned by each of the seven prediction operations lies
\* within [min, max] of the number_range it was called with, whatever
\* numbers the loaded history contains.  Stated for the requests with
\* min < max and 1 <= count <= max - min + 1, where no number can lie outside
\* for want of numbers inside.
C2_ReturnsWithinRange ==
    (IsPrediction /\ Succeeded /\ ret.args.lo < ret.args.hi
        /\ CountFits(ret.args))
        => WithinRange(ret.out.value, ret.args)

\* min >= max, count <= 0, or count > max - min + 1
InvalidRequest(a) ==
    \/ a.lo >= a.hi
    \/ a.count <= 0
    \/ a.count > RangeSize(a)

\* C5: a prediction request whose count or range is invalid is rejected with
\* an error before any algorithm runs, and no prediction operation returns a
\* list with fewer than `count` numbers for such a request.
C5_InvalidRequestRejected ==
    (IsPrediction /\ InvalidRequest(ret.args))
        => /\ ~Succeeded
           /\ Succeeded => Len(ret.out.value) >= ret.args.count

\* the history is too short for the operation that returned
InsufficientHistory ==
    \/ data = <<>>
    \/ ret.op = "predict_by_moving_average" /\ Len(data) < ret.args.window
    \/ ret.op = "predict_by_cyclic_pattern" /\ Len(data) < MinDrawsCyclic

\* C6: insufficient history is not an error: with no draws loaded every
\* prediction operation, with fewer than `window` draws
\* predict_by_moving_average, and with fewer than 3 draws
\* predict_by_cyclic_pattern, completes without failing and returns `count`
\* distinct numbers of the range.
C6_InsufficientHistoryStillPredicts ==
    (IsPrediction /\ CountFits(ret.args) /\ InsufficientHistory)
        => /\ Succeeded
           /\ Len(ret.out.value) = ret.args.count
           /\ Distinct(ret.out.value)
           /\ WithinRange(ret.out.value, ret.args)

ReturnedBy(op) == ret.op = op /\ Succeeded

\* the numbers of the range that no loaded draw holds
Absent(d, a) == {n \in PyRange(a.lo, a.hi) : \A i \in DOMAIN d : ~RowHolds(d, i, n)}

\* the top-2*count "due" pool of the call that returned
DuePool == Range(top_due(data, ret.args.count, ret.args.lo, ret.args.hi))

\* C13 as stated: in predict_by_gap_analysis every number of the range that
\* appears in none of the loaded draws is a member of the top-2*count "due"
\* pool from which the result is sampled.
C13_AbsentNumberIsDue ==
    (ReturnedBy("predict_by_gap_analysis") /\ data # <<>>
        /\ WellFormedRequest(ret.args))
        => Absent(data, ret.args) \subseteq DuePool

\* C13 as amended: every number of the range that appears in none of the
\* loaded draws is a member of the "due" pool whenever at most 2*count
\* numbers of the range appear in none of the loaded draws.
C13_AbsentNumberIsDueWhenPoolHoldsThem ==
    (ReturnedBy("predict_by_gap_analysis") /\ data # <<>>
        /\ Cardinality(Absent(data, ret.args)) <= 2 * ret.args.count)
        => Absent(data, ret.args) \subseteq DuePool

\* an absent number in a pool that leaves numbers of the range out
C13_Witness ==
    /\ ReturnedBy("predict_by_gap_analysis")
    /\ data # <<>>
    /\ Absent(data, ret.args) # {}
    /\ Cardinality(Absent(data, ret.args)) <= 2 * ret.args.count
    /\ Absent(data, ret.args) \subseteq DuePool
    /\ DuePool # PyRange(ret.args.lo, ret.args.hi)

\* the number of times n occurs over all draws of d
OccurrenceCount(d, n) ==
    Occurrences(Flatten([i \in DOMAIN d |-> d[i].items]), n)

\* C14: predict_by_frequency returns the count numbers with the highest
\* occurrence counts of the loaded history: when at least count distinct
\* numbers were observed, it returns count observed numbers and no number
\* outside the result has a strictly higher occurrence count than a number
\* inside it.
C14_FrequencyReturnsTopCount ==
    (ret.op = "predict_by_frequency"
        /\ Cardinality(Observed(data)) >= ret.args.count)
        => /\ Succeeded
           /\ Len(ret.out.value) = ret.args.count
           /\ Range(ret.out.value) \subseteq Observed(data)
           /\ \A inside \in Range(ret.out.value) :
                  \A outside \in Observed(data) \ Range(ret.out.value) :
                      OccurrenceCount(data, outside)
                          <= OccurrenceCount(data, inside)

\* a call that had to leave an observed number out, from a history whose
\* first-seen number is not among the most frequent ones
C14_Witness ==
    /\ ReturnedBy("predict_by_frequency")
    /\ ret.args.count >= 1
    /\ Cardinality(Observed(data)) > ret.args.count
    /\ \E n \in Observed(data) :
           OccurrenceCount(data, n) > OccurrenceCount(data, data[1].items[1])

\* the number of draws after the most recent draw holding n, the number of
\* draws when no draw holds it
DrawsSince(d, n) ==
    CHOOSE g \in 0..Len(d) :
        /\ g < Len(d) => n \in Range(d[Len(d) - g].items)
        /\ \A k \in 0..(g - 1) : n \notin Range(d[Len(d) - k].items)

\* the numbers of the range with a strictly larger gap than n
MoreDue(d, a, n) ==
    {m \in PyRange(a.lo, a.hi) : DrawsSince(d, m) > DrawsSince(d, n)}

\* C22: predict_by_gap_analysis assigns each number of the range the number
\* of draws after its most recent appearance (0 if it is in the latest draw,
\* the number of loaded draws if it never appeared), and every number it
\* returns is a number of the range among the 2 * count numbers with the
\* largest gaps: fewer than 2 * count numbers have a strictly larger gap.
C22_GapsRankedDue ==
    ReturnedBy("predict_by_gap_analysis")
        => /\ \A n \in PyRange(ret.args.lo, ret.args.hi) :
                  Gap(data, n) = DrawsSince(data, n)
           /\ \A r \in Range(ret.out.value) :
                  /\ r \in PyRange(ret.args.lo, ret.args.hi)
                  /\ Cardinality(MoreDue(data, ret.args, r))
                       < 2 * ret.args.count

\* a result from a range with a number of the latest draw, a number of an
\* older draw only and a number of no draw, the pool leaving numbers out
C22_Witness ==
    /\ ReturnedBy("predict_by_gap_analysis")
    /\ ret.args.count >= 1
    /\ RangeSize(ret.args) > 2 * ret.args.count
    /\ \E x, y, z \in PyRange(ret.args.lo, ret.args.hi) :
           /\ DrawsSince(data, x) = 0
           /\ 0 < DrawsSince(data, y) /\ DrawsSince(data, y) < Len(data)
           /\ DrawsSince(data, z) = Len(data)

\* the hot set of the loaded history, with the default percentiles
HotSet == Range(get_hot_cold_numbers(data, DefaultHot, DefaultCold).hot)

\* C23: predict_by_hot_numbers draws from the hot set of
\* get_hot_cold_numbers (default percentiles): a well-formed request is
\* served; if the hot set has at least count members every one of the count
\* returned numbers is hot, and if it is non-empty with fewer than count
\* members every hot number is returned and the remainder, count less the
\* size of the hot set, are other numbers of the range.
C23_HotNumbersFromHotSet ==
    (ret.op = "predict_by_hot_numbers" /\ HotSet # {})
        => /\ WellFormedRequest(ret.args) => Succeeded
           /\ Succeeded =>
                 IF Cardinality(HotSet) >= ret.args.count
                 THEN /\ Range(ret.out.value) \subseteq HotSet
                      /\ Cardinality(Range(ret.out.value)) = ret.args.count
                 ELSE /\ HotSet \subseteq Range(ret.out.value)
                      /\ Range(ret.out.value) \ HotSet
                           \subseteq PyRange(ret.args.lo, ret.args.hi)
                      /\ Cardinality(Range(ret.out.value) \ HotSet)
                           = ret.args.count - Cardinality(HotSet)

\* a result that holds the whole hot set and a number filled in, while the
\* history holds a number that is not hot
C23_Witness ==
    /\ ReturnedBy("predict_by_hot_numbers")
    /\ HotSet # {}
    /\ Cardinality(HotSet) < ret.args.count
    /\ Observed(data) \ HotSet # {}
    /\ HotSet \subseteq Range(ret.out.value)

\* the odd numbers among the numbers of a list
OddIn(numbers) == {n \in Range(numbers) : n % 2 = 1}

\* C24: predict_by_pattern returns a balanced odd/even split: whenever the
\* range contains at least count // 2 odd numbers and at least
\* count - count // 2 even numbers, the result holds count numbers, exactly
\* count // 2 of them odd and the remaining ones even.
C24_PatternBalancedSplit ==
    (ret.op = "predict_by_pattern"
        /\ Cardinality(OddNumbers(ret.args.lo, ret.args.hi))
              >= ret.args.count \div 2
        /\ Cardinality(EvenNumbers(ret.args.lo, ret.args.hi))
              >= ret.args.count - ret.args.count \div 2)
        => /\ Succeeded
           /\ Cardinality(Range(ret.out.value)) = ret.args.count
           /\ Cardinality(OddIn(ret.out.value)) = ret.args.count \div 2

\* the most recent w draws of a history of at least w draws
LastDraws(d, w) == [i \in 1..w |-> d[Len(d) - w + i]]

\* C21: predict_by_moving_average with at least window loaded draws depends
\* only on the most recent window draws: every history that agrees with the
\* loaded one on its last window draws, these holding at least count
\* distinct numbers, gives the one result that was returned.
C21_MovingAverageWindowOnly ==
    (ret.op = "predict_by_moving_average"
        /\ Len(data) >= ret.args.window
        /\ Cardinality(Observed(LastDraws(data, ret.args.window)))
              >= ret.args.count)
        => \A h \in HistoriesP :
               (Len(h) >= ret.args.window
                   /\ LastDraws(h, ret.args.window) = LastDraws(data, ret.args.window))
                   => predict_by_moving_average(h, ret.args.count, ret.args.lo,
                                                ret.args.hi, ret.args.window)
                        = {ret.out}

\* a call whose window leaves out draws holding the most frequent number
\* of the history, a number the window does not hold
C21_Witness ==
    /\ ReturnedBy("predict_by_moving_average")
    /\ ret.args.count >= 1
    /\ Len(data) > ret.args.window
    /\ Cardinality(Observed(LastDraws(data, ret.args.window))) >= ret.args.count
    /\ \E n \in Observed(data) \ Observed(LastDraws(data, ret.args.window)) :
           OccurrenceCount(data, n) >= 2

----------------------------------------------------------------------------
(* Properties of the games, checked under SpecGame *)

GameIds == DOMAIN LOTTERY_GAMES

PredictedForGame ==
    ret.op = "predict_for_lottery_type" /\ ret.out.status = "ok"

\* the produced number list: main_numbers followed by bonus_numbers, digits,
\* or recommended
ProducedNumbers(result) ==
    IF "main_numbers" \in DOMAIN result
    THEN result.main_numbers \o result.bonus_numbers
    ELSE IF "digits" \in DOMAIN result THEN result.digits
    ELSE result.recommended

\* C3: for every registered game and every loaded history, the number list
\* predict_for_lottery_type produces makes validate_numbers of the engine's
\* game return True.
C3_PredictionValidates ==
    PredictedForGame
        => validate_numbers(lottery_type, ProducedNumbers(ret.out.value))

TwoZoneGames == {g \in GameIds : Has(g, "bonus_numbers")}

\* the zones of a game, the main zone first
Zones(g) == <<LOTTERY_GAMES[g].main_numbers, LOTTERY_GAMES[g].bonus_numbers>>

InZone(numbers, zone) ==
    /\ Len(numbers) = zone.count
    /\ \A i \in DOMAIN numbers : zone.lo <= numbers[i] /\ numbers[i] <= zone.hi

\* C4: for every game with a main and a bonus zone (daletou, shuangseqiu,
\* qilecai), predict_for_lottery_type runs one ensemble per zone, with the
\* zone's own count and range, and returns the main zone's numbers, within
\* the main range, followed by the bonus zone's numbers, within the bonus
\* range; for daletou 5 of 1..35 followed by 2 of 1..12.
C4_OneEnsemblePerZone ==
    (PredictedForGame /\ lottery_type \in TwoZoneGames)
        => LET zones == Zones(lottery_type)
               numbers == ProducedNumbers(ret.out.value)
           IN  /\ EnsembleRuns(lottery_type) = zones
               /\ Len(numbers) = zones[1].count + zones[2].count
               /\ InZone(Slice(numbers, 0, zones[1].count), zones[1])
               /\ InZone(Slice(numbers, zones[1].count, Len(numbers)), zones[2])

Constructors == {"get_lottery_type", "PredictionEngine"}

UnknownGameAsked(r) ==
    r.op \in Constructors /\ r.args.game_type \notin GameIds

\* C7: a step that looks up a LotteryType, or constructs an engine, for a
\* game id that is not registered ends in an error: no object is returned,
\* and the engine held and its history stay as they were.
C7_UnknownGameFails ==
    [][UnknownGameAsked(ret')
          => /\ ret'.out = Err
             /\ UNCHANGED <<lottery_type, algorithms, min_data_points, data>>
      ]_vars

C7_Witness ==
    /\ UnknownGameAsked(ret)
    /\ ret.op = "PredictionEngine"
    /\ ret.out = Err
    /\ lottery_type = "daletou"
    /\ data # <<>>

\* the games whose draw is one digit per position
DigitGames == {g \in GameIds : Has(g, "digits")}

\* the digit sequences of the game's length
DigitSequences(g) == [1..LOTTERY_GAMES[g].digits.count -> DigitValues]

\* C27: for every digit-position game predict_for_lottery_type predicts each
\* position independently, so every digit sequence of the game's length,
\* with repeated digits or not ascending as well, is a possible output of the
\* call that has just returned.
C27_EveryDigitSequencePossible ==
    (ret.op = "predict_for_lottery_type" /\ lottery_type \in DigitGames)
        => \A digits \in DigitSequences(lottery_type) :
               \E out \in predict_for_lottery_type(lottery_type, algorithms,
                                                   min_data_points, data) :
                   /\ out.status = "ok"
                   /\ ProducedNumbers(out.value) = digits

----------------------------------------------------------------------------
(* Properties of the ensemble, checked under SpecCombined *)

Generated == ret.op = "generate_prediction_with_confidence"

\* comparison of fractions
Norm(f) == IF f.den < 0 THEN Fraction(-f.num, -f.den) ELSE f

Leq(a, b) == Norm(a).num * Norm(b).den <= Norm(b).num * Norm(a).den

Same(a, b) == Leq(a, b) /\ Leq(b, a)

\* C11: the confidence generate_prediction_with_confidence reports equals
\* min(1, draws_used / (5 * min_data_points)); for every number of loaded
\* draws and every configured min_data_points it lies in [0, 1], it is 0 when
\* no draws are loaded, and no shorter history gives a greater one.
C11_ConfidenceBoundedMonotone ==
    (Generated /\ WellFormedRequest(ret.args))
        => /\ Succeeded
           /\ LET confidence == ret.out.value.confidence
                  ratio == Fraction(Len(data), 5 * min_data_points)
              IN  /\ ratio.den # 0
                  /\ IF Leq(Fraction(1, 1), ratio)
                     THEN Same(confidence, Fraction(1, 1))
                     ELSE Same(confidence, ratio)
                  /\ Leq(Fraction(0, 1), confidence)
                  /\ Leq(confidence, Fraction(1, 1))
                  /\ data = <<>> => Same(confidence, Fraction(0, 1))
                  /\ \A n \in 0..Len(data) :
                         /\ Confidence(n, min_data_points).status = "ok"
                         /\ Leq(Confidence(n, min_data_points).value, confidence)

Combined == ret.op = "predict_combined"

\* the per-algorithm predictions of a result of predict_combined
Candidates(predictions) == SelectSeq(predictions, LAMBDA p : p[1] # "ensemble")

\* every candidate list, one after the other in the order of the result
AllPredicted(predictions) == Flatten(Values(Candidates(predictions)))

VotesFor(predictions, x) == Occurrences(AllPredicted(predictions), x)

\* where x is first seen among the candidates
FirstSeen(predictions, x) ==
    CHOOSE i \in DOMAIN AllPredicted(predictions) :
        /\ AllPredicted(predictions)[i] = x
        /\ \A j \in 1..(i - 1) : AllPredicted(predictions)[j] # x

\* C12: the ensemble of predict_combined is the top `count` numbers by vote
\* count, each candidate list giving one vote to each of its numbers: the
\* candidate lists come in the fixed order of the algorithms, the ensemble
\* holds as many candidates as `count` allows, no number left out has
\* strictly more votes than a number in it, and of two numbers with equal
\* votes the one first seen is preferred.
C12_EnsembleTopVotes ==
    (Combined /\ Succeeded)
        => LET predictions == ret.out.value
               ensemble == Get(predictions, "ensemble", <<>>)
               voted == Range(AllPredicted(predictions))
           IN  /\ Keys(Candidates(predictions))
                    = SelectSeq(AlgorithmOrder,
                                LAMBDA n : n \in Range(algorithms))
               /\ Cardinality(Range(ensemble) \cap voted)
                    = Min(ret.args.count, Cardinality(voted))
               /\ \A x \in Range(ensemble), y \in voted \ Range(ensemble) :
                      /\ VotesFor(predictions, y) <= VotesFor(predictions, x)
                      /\ VotesFor(predictions, y) = VotesFor(predictions, x)
                           => FirstSeen(predictions, x)
                                < FirstSeen(predictions, y)

\* a tie between a number kept and a number left out, with pattern before
\* frequency in the configured list
C12_Witness ==
    /\ Combined /\ Succeeded
    /\ algorithms = <<"pattern", "frequency">>
    /\ Len(Candidates(ret.out.value)) = 2
    /\ \E x \in Range(Get(ret.out.value, "ensemble", <<>>)),
          y \in Range(AllPredicted(ret.out.value))
                  \ Range(Get(ret.out.value, "ensemble", <<>>)) :
           VotesFor(ret.out.value, x) = VotesFor(ret.out.value, y)

\* C26: for 1 <= count <= max - min + 1 predict_combined returns an
\* 'ensemble' entry of exactly count distinct numbers, and every number of it
\* that no algorithm proposed is a number of the range; this also when the
\* candidates are fewer than count or no configured algorithm runs.
C26_EnsembleHoldsCountDistinct ==
    (Combined /\ CountFits(ret.args))
        => /\ Succeeded
           /\ LET ensemble == Get(ret.out.value, "ensemble", <<>>)
              IN  /\ Len(ensemble) = ret.args.count
                  /\ Cardinality(Range(ensemble)) = ret.args.count
                  /\ Range(ensemble) \ Range(AllPredicted(ret.out.value))
                       \subseteq PyRange(ret.args.lo, ret.args.hi)

\* C30: in a result of generate_prediction_with_confidence the names in
\* algorithms_used are, as a set, the keys of 'predictions' other than
\* 'ensemble', whatever list of algorithms the engine is configured with.
C30_AlgorithmsUsedArePredictionKeys ==
    (Generated /\ Succeeded)
        => Range(ret.out.value.algorithms_used)
             = Range(Keys(Candidates(ret.out.value.predictions)))

----------------------------------------------------------------------------
(* Properties of the game rules, checked under SpecRules *)

\* the (min, max) range of position i of a ticket of the game: the main
\* zone's for the first main count positions, the bonus zone's after them;
\* the digit range at every position of a digit game
PositionRange(game_type, i) ==
    LET config == LOTTERY_GAMES[game_type]
    IN  IF "main_numbers" \in DOMAIN config
        THEN IF i <= config.main_numbers.count
             THEN <<config.main_numbers.lo, config.main_numbers.hi>>
             ELSE <<config.bonus_numbers.lo, config.bonus_numbers.hi>>
        ELSE <<config.digits.lo, config.digits.hi>>

InPosition(game_type, numbers, i) ==
    /\ PositionRange(game_type, i)[1] <= numbers[i]
    /\ numbers[i] <= PositionRange(game_type, i)[2]

\* C15: validate_numbers(numbers) returns True if and only if the list has
\* exactly get_number_count() entries and every entry lies within the
\* (min, max) range of its position; a list with repeated numbers or in
\* another than ascending order is judged by the same rule.
C15_ValidateIffCountAndRanges ==
    ret.op = "validate_numbers"
        => /\ Succeeded
           /\ ret.out.value
                <=> /\ Len(ret.args.numbers) = get_number_count(lottery_type)
                    /\ \A i \in DOMAIN ret.args.numbers :
                           InPosition(lottery_type, ret.args.numbers, i)

\* a list with a repeated number and a descent, found valid
C15_Witness ==
    /\ ret.op = "validate_numbers"
    /\ ret.out = Ok(TRUE)
    /\ ~Distinct(ret.args.numbers)
    /\ \E i \in 1..(Len(ret.args.numbers) - 1) :
           ret.args.numbers[i] > ret.args.numbers[i + 1]

\* C16: for every registered game, get_number_ranges returns exactly
\* get_number_count() ranges, one per number position, the main zone's
\* positions first and the bonus zone's positions last.
C16_RangesOnePerPosition ==
    ret.op = "get_number_ranges"
        => /\ Succeeded
           /\ Len(ret.out.value) = get_number_count(lottery_type)
           /\ \A i \in DOMAIN ret.out.value :
                  ret.out.value[i] = PositionRange(lottery_type, i)

\* the ranges of a game whose bonus zone has another range than its main
\* zone
C16_Witness ==
    /\ ret.op = "get_number_ranges"
    /\ Succeeded
    /\ "bonus_numbers" \in DOMAIN LOTTERY_GAMES[lottery_type]
    /\ ret.out.value[1] # ret.out.value[Len(ret.out.value)]

----------------------------------------------------------------------------
(* Properties of the record manager, checked under SpecRecords *)

IsFound(recs, record_id) == get_record(recs, record_id) # NoneValue

\* the step is a remove_record(record_id) that returned True
Removes(r, record_id) ==
    r.op = "remove_record" /\ r.args.id = record_id /\ r.out = Ok(TRUE)

\* C20: over any sequence of add_record, update_record and remove_record
\* calls, the id an add_record returns is found by get_record, an id of an
\* added record that is found stays found over every step but the
\* remove_record that removes it, and when remove_record(id) has returned
\* True, get_record(id) returns None.
C20_FoundUntilRemoved ==
    [][/\ ret'.op = "add_record" /\ records' # records
            => IsFound(records', ret'.out.value)
       /\ \A record_id \in AddedIds :
              (IsFound(records, record_id) /\ ~Removes(ret', record_id))
                  => IsFound(records', record_id)
       /\ \A record_id \in RecordIds :
              (Removes(ret', record_id) /\ records' # records)
                  => ~IsFound(records', record_id)
      ]_vars

\* C29: after any sequence of add_record and remove_record calls, several
\* of them within one second as well, no two records held have the same id,
\* and the same holds for the records in the file.
C29_IdsUnique ==
    /\ \A i, j \in DOMAIN records :
           records[i].id = records[j].id => i = j
    /\ \A i, j \in DOMAIN stored :
           stored[i].id = stored[j].id => i = j

============================================================================
